---- MODULE Spec2Model ----
(***************************************************************************)
(* Verification model of the tool-governance layer and the agent loop:     *)
(*   - ToolRateLimiter   (lab_03_plugin_framework/starter/manager.py)      *)
(*   - ToolRegistry      (lab_03_plugin_framework/starter/registry.py)     *)
(*   - PathSanitizer     (lab_03_plugin_framework/starter/security.py)     *)
(*   - ListFilesTool / CalculatorTool                                      *)
(*   - ObservableAgent   (project_starter/src/agent/observable_agent.py)   *)
(*                                                                         *)
(* Time is counted in whole seconds.  The limiter's float allowance is     *)
(* kept exactly as an integer number of 1/60 tokens, so that the refill    *)
(* time_passed * (calls_per_minute / 60.0) is the integer                  *)
(* time_passed * calls_per_minute and one token is SecondsPerMinute units. *)
(* IEEE rounding of the float product is not modelled.                     *)
(***************************************************************************)
EXTENDS Integers, Sequences, FiniteSets, TLC

\* ------------------------------------------------------------------ bounds
MaxCap == 3
MaxCalls == 5
MaxTime == 60
MaxRegCalls == 3
MaxRegTime == 30
MaxLimit == 2
MaxDepth == 2
MaxSteps == 2
MaxToolCalls == 2
MaxLogged == 2
MaxQueries == 2
NumThreads == 2
CallsPerThread == 2
MaxRetries == 3

\* ------------------------------------------------------- program constants
SecondsPerMinute == 60

\* --------------------------------------------------------------- variables
VARIABLES
  now,        \* the reading time.time() returns at this moment (seconds)
  limiter,    \* one ToolRateLimiter: calls_per_minute, allowance, last_check
  created,    \* the clock reading its constructor took
  history,    \* the is_allowed calls made on it: <<[at, ok], ...>>
  \* threads calling is_allowed on the one limiter
  lock,       \* self.lock: the thread holding it, 0 when free
  pc,         \* per thread: the statement of is_allowed it is about to run
  tcalls,     \* per thread: calls of is_allowed it has started
  admitted,   \* calls that returned True
  denied      \* calls that returned False

VARIABLES
  \* ToolRegistry
  reg_tools,    \* self._tools: registered name -> tool instance
  reg_order,    \* insertion order of the keys of self._tools
  reg_limiters, \* self._limiters: registered name -> ToolRateLimiter
  reg_at,       \* per registered name: the clock reading at its register()
  reg_calls,    \* per registered name: is_allowed checks on its limiter since then
  last_call     \* the latest call of the registry and what it returned

VARIABLES
  \* PathSanitizer / ListFilesTool
  cwd,        \* the process's working directory (os.getcwd()), components
  path_call   \* the latest validate_safe_path / ListFilesTool.execute call

VARIABLES
  \* ObservableAgent and its collaborators
  max_steps,        \* self.max_steps
  step_number,      \* self._step_number
  current_trace_id, \* self._current_trace_id (0: not set yet)
  traces,           \* tracer: trace id -> status, logged step numbers, end_trace calls
  cost_current,     \* cost_tracker._current_query
  cost_queries,     \* cost_tracker.queries
  detector,         \* loop detector: the runs whose calls and answers its history holds
  run,              \* per run() call: its position and local variables
  tool_runs         \* tool.execute invocations made by the run in progress

VARIABLES
  \* HuggingFaceClient
  client      \* one client and the query() call made on it

limiterVars == <<limiter, created, history>>

agentVars == <<max_steps, step_number, current_trace_id, traces, cost_current,
               cost_queries, detector, run, tool_runs>>

pathVars == <<cwd, path_call>>

threadVars == <<lock, pc, tcalls, admitted, denied>>

registryVars == <<reg_tools, reg_order, reg_limiters, reg_at, reg_calls, last_call>>

vars == <<now, limiterVars, threadVars, registryVars, pathVars, agentVars, client>>

\* what a specification of one component leaves alone
outsideLimiter == <<registryVars, pathVars, agentVars, client>>

outsideRegistry == <<limiterVars, threadVars, pathVars, agentVars, client>>

outsidePath == <<now, limiterVars, threadVars, registryVars, agentVars, client>>

outsideAgent == <<now, limiterVars, threadVars, registryVars, pathVars, client>>

outsideClient == <<now, limiterVars, threadVars, registryVars, pathVars, agentVars>>

\* ------------------------------------------------------------------- clock
\* Amounts by which the clock reading changes between two observations.
ClockSteps == {20, 30, 60}

\* time.time() read later: the wall clock has moved forward by d seconds.
ClockAdvance(d) ==
  /\ now + d <= MaxTime
  /\ now' = now + d

\* time.time() is the wall clock, not a monotonic clock: an adjustment of the
\* system time makes a later reading smaller than an earlier one.
ClockSetBack(d) ==
  /\ now - d >= 0
  /\ now' = now - d

\* --------------------------------------------------------- ToolRateLimiter
Token == SecondsPerMinute

\* ToolRateLimiter.__init__
NewLimiter(calls_per_minute, t) ==
  [calls_per_minute |-> calls_per_minute,
   allowance        |-> calls_per_minute * Token,
   last_check       |-> t]

\* (mutant) the refill forgets to move last_check forward
RefillKeepsLastCheck(lim, current) ==
  LET time_passed == current - lim.last_check
  IN  [lim EXCEPT !.allowance = lim.allowance + time_passed * lim.calls_per_minute]

\* lines 44-51: elapsed time, last_check update, refill
Refill(lim, current) ==
  LET time_passed == current - lim.last_check
  IN  [lim EXCEPT !.last_check = current,
                  !.allowance  = lim.allowance + time_passed * lim.calls_per_minute]

\* lines 56-57: cap at the maximum
Cap(lim) ==
  IF lim.allowance > lim.calls_per_minute * Token
    THEN [lim EXCEPT !.allowance = lim.calls_per_minute * Token]
    ELSE lim

\* (mutant) the last whole token is never handed out
SpendOffByOne(lim) ==
  IF lim.allowance <= Token
    THEN [lim |-> lim, ok |-> FALSE]
    ELSE [lim |-> [lim EXCEPT !.allowance = lim.allowance - Token], ok |-> TRUE]

\* lines 65-68: spend a token when there is one
Spend(lim) ==
  IF lim.allowance < Token
    THEN [lim |-> lim, ok |-> FALSE]
    ELSE [lim |-> [lim EXCEPT !.allowance = lim.allowance - Token], ok |-> TRUE]

\* ToolRateLimiter.is_allowed, the body of the critical section as one step
is_allowed(lim, current) == Spend(Cap(Refill(lim, current)))

\* One call of limiter.is_allowed() at the present clock reading.
LimiterCall ==
  /\ Len(history) < MaxCalls
  /\ LET r == is_allowed(limiter, now)
     IN  /\ limiter' = r.lim
         /\ history' = Append(history, [at |-> now, ok |-> r.ok])
  /\ UNCHANGED <<now, created>>
  /\ UNCHANGED <<threadVars, outsideLimiter>>

\* ToolRegistry.__init__
RegistryEmpty ==
  /\ reg_tools = <<>>
  /\ reg_order = <<>>
  /\ reg_limiters = <<>>
  /\ reg_at = <<>>
  /\ reg_calls = <<>>
  /\ last_call = [op |-> "none"]

Runs == {1, 2}

\* a run() call that has not started: no local variable exists yet
NotStarted ==
  [pc |-> "idle", messages |-> <<>>, final_answer |-> "<None>", pending |-> 0,
   content |-> "<None>", completions |-> 0, tool_failures |-> 0, resets |-> 0,
   trace |-> 0, answer |-> "<None>", error |-> "<None>"]

\* ObservableAgent.__init__ and its collaborators' constructors
AgentCreated ==
  /\ step_number = 0
  /\ current_trace_id = 0
  /\ traces = <<>>
  /\ cost_current = [open |-> FALSE]
  /\ cost_queries = <<>>
  /\ detector = {}
  /\ run = [r \in Runs |-> NotStarted]
  /\ tool_runs = 0

AgentIdle == max_steps = 1 /\ AgentCreated

PathIdle ==
  /\ cwd = <<>>
  /\ path_call = [op |-> "none"]

\* no HuggingFaceClient has been constructed
ClientIdle == client = [pc |-> "none"]

Threads == 1..NumThreads

ThreadsIdle ==
  /\ lock = 0
  /\ pc = [t \in Threads |-> "idle"]
  /\ tcalls = [t \in Threads |-> 0]
  /\ admitted = 0
  /\ denied = 0

FreshLimiter ==
  /\ now = 0
  /\ \E c \in 1..MaxCap : limiter = NewLimiter(c, now)
  /\ created = now
  /\ history = <<>>

LimiterInit ==
  FreshLimiter /\ ThreadsIdle /\ RegistryEmpty /\ PathIdle /\ AgentIdle /\ ClientIdle

LimiterTick ==
  \E d \in ClockSteps : ClockAdvance(d) /\ UNCHANGED <<limiterVars, threadVars, outsideLimiter>>

LimiterSetBack ==
  \E d \in ClockSteps : ClockSetBack(d) /\ UNCHANGED <<limiterVars, threadVars, outsideLimiter>>

LimiterNext == LimiterCall \/ LimiterTick \/ LimiterSetBack

SpecLimiter == LimiterInit /\ [][LimiterNext]_vars

\* ------------------------------------- is_allowed, statement by statement
\* Several threads call is_allowed on the same limiter; a thread switch can
\* happen between any two statements.

\* (mutant) the critical section is entered without taking the lock
EnterWithoutLock(t) ==
  /\ pc[t] = "idle"
  /\ tcalls[t] < CallsPerThread
  /\ pc' = [pc EXCEPT ![t] = "refill"]
  /\ tcalls' = [tcalls EXCEPT ![t] = @ + 1]
  /\ UNCHANGED <<lock, limiter, admitted, denied, now, created, history, outsideLimiter>>

\* line 43: with self.lock (blocks while another thread holds the lock)
Enter(t) ==
  /\ pc[t] = "idle"
  /\ tcalls[t] < CallsPerThread
  /\ lock = 0
  /\ lock' = t
  /\ pc' = [pc EXCEPT ![t] = "refill"]
  /\ tcalls' = [tcalls EXCEPT ![t] = @ + 1]
  /\ UNCHANGED <<limiter, admitted, denied, now, created, history, outsideLimiter>>

\* lines 44-51
DoRefill(t) ==
  /\ pc[t] = "refill"
  /\ limiter' = Refill(limiter, now)
  /\ pc' = [pc EXCEPT ![t] = "cap"]
  /\ UNCHANGED <<lock, tcalls, admitted, denied, now, created, history, outsideLimiter>>

\* lines 56-57
DoCap(t) ==
  /\ pc[t] = "cap"
  /\ limiter' = Cap(limiter)
  /\ pc' = [pc EXCEPT ![t] = "check"]
  /\ UNCHANGED <<lock, tcalls, admitted, denied, now, created, history, outsideLimiter>>

\* lines 65-66: return False leaves the with block
DoCheck(t) ==
  /\ pc[t] = "check"
  /\ IF limiter.allowance < Token
       THEN /\ denied' = denied + 1
            /\ pc' = [pc EXCEPT ![t] = "idle"]
            /\ lock' = IF lock = t THEN 0 ELSE lock
       ELSE /\ pc' = [pc EXCEPT ![t] = "spend"]
            /\ UNCHANGED <<denied, lock>>
  /\ UNCHANGED <<limiter, tcalls, admitted, now, created, history, outsideLimiter>>

\* lines 67-68: return True leaves the with block
DoSpend(t) ==
  /\ pc[t] = "spend"
  /\ limiter' = [limiter EXCEPT !.allowance = @ - Token]
  /\ admitted' = admitted + 1
  /\ pc' = [pc EXCEPT ![t] = "idle"]
  /\ lock' = IF lock = t THEN 0 ELSE lock
  /\ UNCHANGED <<tcalls, denied, now, created, history, outsideLimiter>>

ThreadsNext ==
  \/ \E t \in Threads : Enter(t)
  \/ \E t \in Threads : DoRefill(t)
  \/ \E t \in Threads : DoCap(t)
  \/ \E t \in Threads : DoCheck(t)
  \/ \E t \in Threads : DoSpend(t)
  \/ LimiterTick

SpecThreads == LimiterInit /\ [][ThreadsNext]_vars

\* ------------------------------------------------------------------ values
\* Python values that cross the registry boundary.
None == [kind |-> "None"]

Number(n) == [kind |-> "number", value |-> n]

\* {"success": ..., "result": ..., "error": ...}; error "None" stands for None
ResultDict(success, result, error) ==
  [kind |-> "dict", success |-> success, result |-> result, error |-> error]

\* outcome of a Python call: a returned value or a raised exception
Return(v) == [raised |-> FALSE, value |-> v, error |-> "None"]

Raise(e) == [raised |-> TRUE, value |-> None, error |-> e]

\* ------------------------------------------------------------------- tools
ToolKinds == {"calculator", "list_files"}

\* tool objects a caller can hand to register(): one ListFilesTool and two
\* CalculatorTool instances
ToolIds == {1, 2}

ToolInstances ==
  {t \in [kind : ToolKinds, id : ToolIds] : t.kind = "list_files" => t.id = 1}

\* the name property of each tool class
ToolName(tool) ==
  IF tool.kind = "calculator" THEN "execute_calculation" ELSE "list_files"

\* the permissions property: ListFilesTool overrides it; CalculatorTool
\* inherits the base class's, which asks for none
ToolPermissions(tool) ==
  IF tool.kind = "list_files" THEN <<"filesystem:read">> ELSE <<>>

\* parameters of execute() that have no default value
RequiredParams(tool) ==
  IF tool.kind = "calculator"
    THEN <<"operation", "operand_a", "operand_b">>
    ELSE <<>>

\* argument dicts callers pass
AddArgs == [operation |-> "add", operand_a |-> 1, operand_b |-> 2]

PathArgs == [path |-> "."]

ArgumentDicts == {AddArgs, PathArgs}

\* CalculatorTool.execute with its parameters bound
calculate(operation, a, b) ==
  CASE operation = "add"      -> ResultDict(TRUE, Number(a + b), "None")
    [] operation = "subtract" -> ResultDict(TRUE, Number(a - b), "None")
    [] operation = "multiply" -> ResultDict(TRUE, Number(a * b), "None")
    [] operation = "divide"   ->
         IF b = 0
           THEN ResultDict(FALSE, None, "Division by zero is not allowed.")
           ELSE ResultDict(TRUE, [kind |-> "quotient", num |-> a, den |-> b], "None")
    [] operation = "pow"      -> ResultDict(TRUE, Number(a ^ b), "None")
    [] OTHER                  -> ResultDict(FALSE, None, "Unsupported operation")

\* ListFilesTool.execute called with a path that is not a string:
\* os.path.join raises TypeError inside the try, the tool's own handler
\* turns it into a failure dict
list_files_non_string == ResultDict(FALSE, None, "Error: TypeError")

\* tool.execute(arguments): the dict is passed as ONE positional argument.
\* The call raises TypeError when execute() has more required parameters than
\* that; otherwise the dict is bound to the first parameter.
execute_positional(tool, arguments) ==
  IF Len(RequiredParams(tool)) > 1
    THEN Raise("TypeError: missing required positional arguments")
    ELSE Return(list_files_non_string)

\* ------------------------------------------------------------ ToolRegistry
RegisteredNames == DOMAIN reg_tools

ToolNames == {ToolName(t) : t \in ToolInstances}

\* names callers ask for: the registered ones and one nobody registered
CallNames == ToolNames \cup {"unknown_tool"}

PermissionSets == {{}, {"filesystem:read"}}

NotFound == "Tool not found."

RateLimited == "Rate limit exceeded for tool."

AccessDenied == "Access Denied. Missing permissions."

\* what one registry call did: the dict it returned, the limiters afterwards,
\* and whether tool.execute was invoked
Done(res, limiters, ran) == [res |-> res, limiters |-> limiters, ran |-> ran]

\* an exception that leaves a registry call instead of a result dict
Propagated(e) == [kind |-> "raised", error |-> e]

\* (mutant) execute without the error boundary around tool.execute
execute_without_boundary(tool_name, arguments) ==
  IF tool_name \notin RegisteredNames
    THEN Done(ResultDict(FALSE, None, NotFound), reg_limiters, FALSE)
    ELSE
      LET tool    == reg_tools[tool_name]
          checked == is_allowed(reg_limiters[tool_name], now)
          after   == [reg_limiters EXCEPT ![tool_name] = checked.lim]
          out     == execute_positional(tool, arguments)
      IN  IF ~checked.ok
            THEN Done(ResultDict(FALSE, None, RateLimited), after, FALSE)
            ELSE IF out.raised
              THEN Done(Propagated(out.error), after, TRUE)
              ELSE Done(ResultDict(TRUE, out.value, "None"), after, TRUE)

\* (mutant) execute with limiters kept in a dict that makes an entry for
\* every name it is asked about
execute_default_limiter(tool_name, arguments) ==
  IF tool_name \notin RegisteredNames
    THEN Done(ResultDict(FALSE, None, NotFound),
              [x \in DOMAIN reg_limiters \cup {tool_name} |->
                 IF x = tool_name THEN NewLimiter(1, now) ELSE reg_limiters[x]],
              FALSE)
    ELSE
      LET tool    == reg_tools[tool_name]
          checked == is_allowed(reg_limiters[tool_name], now)
          after   == [reg_limiters EXCEPT ![tool_name] = checked.lim]
          out     == execute_positional(tool, arguments)
      IN  IF ~checked.ok
            THEN Done(ResultDict(FALSE, None, RateLimited), after, FALSE)
            ELSE IF out.raised
              THEN Done(ResultDict(FALSE, None, out.error), after, TRUE)
              ELSE Done(ResultDict(TRUE, out.value, "None"), after, TRUE)

\* (mutant) execute that hands the token back when the tool raises
execute_refunds_failure(tool_name, arguments) ==
  IF tool_name \notin RegisteredNames
    THEN Done(ResultDict(FALSE, None, NotFound), reg_limiters, FALSE)
    ELSE
      LET tool    == reg_tools[tool_name]
          checked == is_allowed(reg_limiters[tool_name], now)
          after   == [reg_limiters EXCEPT ![tool_name] = checked.lim]
          out     == execute_positional(tool, arguments)
      IN  IF ~checked.ok
            THEN Done(ResultDict(FALSE, None, RateLimited), after, FALSE)
            ELSE IF out.raised
              THEN Done(ResultDict(FALSE, None, out.error), reg_limiters, TRUE)
              ELSE Done(ResultDict(TRUE, out.value, "None"), after, TRUE)

\* ToolRegistry.execute
execute(tool_name, arguments) ==
  IF tool_name \notin RegisteredNames
    THEN Done(ResultDict(FALSE, None, NotFound), reg_limiters, FALSE)
    ELSE
      LET tool    == reg_tools[tool_name]
          checked == is_allowed(reg_limiters[tool_name], now)
          after   == [reg_limiters EXCEPT ![tool_name] = checked.lim]
          out     == execute_positional(tool, arguments)
      IN  IF ~checked.ok
            THEN Done(ResultDict(FALSE, None, RateLimited), after, FALSE)
            ELSE IF out.raised
              THEN Done(ResultDict(FALSE, None, out.error), after, TRUE)
              ELSE Done(ResultDict(TRUE, out.value, "None"), after, TRUE)

\* lines 125: the permissions the caller lacks
Missing(tool, user_permissions) ==
  SelectSeq(ToolPermissions(tool), LAMBDA q : q \notin user_permissions)

\* (mutant) the rate limit is consumed before the permissions are looked at
execute_secure_limit_first(tool_name, arguments, user_permissions) ==
  IF tool_name \notin RegisteredNames
    THEN Done(ResultDict(FALSE, None, NotFound), reg_limiters, FALSE)
    ELSE
      LET r == execute(tool_name, arguments)
      IN  IF Missing(reg_tools[tool_name], user_permissions) # <<>>
            THEN Done(ResultDict(FALSE, None, AccessDenied), r.limiters, FALSE)
            ELSE r

\* (mutant) execute_secure that raises on a missing permission
execute_secure_raises(tool_name, arguments, user_permissions) ==
  IF tool_name \notin RegisteredNames
    THEN Done(ResultDict(FALSE, None, NotFound), reg_limiters, FALSE)
    ELSE IF Missing(reg_tools[tool_name], user_permissions) # <<>>
      THEN Done(Propagated("PermissionError"), reg_limiters, FALSE)
      ELSE execute(tool_name, arguments)

\* ToolRegistry.execute_secure
execute_secure(tool_name, arguments, user_permissions) ==
  IF tool_name \notin RegisteredNames
    THEN Done(ResultDict(FALSE, None, NotFound), reg_limiters, FALSE)
    ELSE IF Missing(reg_tools[tool_name], user_permissions) # <<>>
      THEN Done(ResultDict(FALSE, None, AccessDenied), reg_limiters, FALSE)
      ELSE execute(tool_name, arguments)

Range(seq) == {seq[i] : i \in DOMAIN seq}

\* f with key k set to v (a dict assignment)
Put(f, k, v) == [x \in DOMAIN f \cup {k} |-> IF x = k THEN v ELSE f[x]]

\* (mutant) register that keeps the limiter an entry already has
RegisterKeepsLimiter(tool, calls_per_minute) ==
  LET name == ToolName(tool)
  IN  /\ reg_tools' = Put(reg_tools, name, tool)
      /\ reg_limiters' = IF name \in RegisteredNames THEN reg_limiters
                          ELSE Put(reg_limiters, name, NewLimiter(calls_per_minute, now))
      /\ reg_order' = IF name \in RegisteredNames THEN reg_order
                                                  ELSE Append(reg_order, name)
      /\ reg_at' = Put(reg_at, name, now)
      /\ reg_calls' = Put(reg_calls, name, 0)
      /\ last_call' = [op |-> "register", name |-> name, tool |-> tool,
                       limit |-> calls_per_minute]
      /\ UNCHANGED <<now, outsideRegistry>>

\* ToolRegistry.register
Register(tool, calls_per_minute) ==
  LET name == ToolName(tool)
  IN  /\ reg_tools' = Put(reg_tools, name, tool)
      /\ reg_limiters' = Put(reg_limiters, name, NewLimiter(calls_per_minute, now))
      /\ reg_order' = IF name \in RegisteredNames THEN reg_order
                                                  ELSE Append(reg_order, name)
      /\ reg_at' = Put(reg_at, name, now)
      /\ reg_calls' = Put(reg_calls, name, 0)
      /\ last_call' = [op |-> "register", name |-> name, tool |-> tool,
                       limit |-> calls_per_minute]
      /\ UNCHANGED <<now, outsideRegistry>>

\* ToolRegistry.get_tool
get_tool(name) == IF name \in RegisteredNames THEN reg_tools[name] ELSE None

\* BaseTool.get_schema: the function schema carrying the tool's name
get_schema(tool) == [type |-> "function", name |-> ToolName(tool)]

\* (mutant) the schemas in the reverse of the dict's order
get_schemas_reversed ==
  [i \in DOMAIN reg_order |->
     get_schema(reg_tools[reg_order[Len(reg_order) + 1 - i]])]

\* ToolRegistry.get_schemas: one schema per value of _tools, in dict order
get_schemas == [i \in DOMAIN reg_order |-> get_schema(reg_tools[reg_order[i]])]

\* a caller runs registry.get_schemas()
GetSchemas ==
  /\ last_call' = [op |-> "get_schemas", res |-> get_schemas]
  /\ UNCHANGED <<now, reg_tools, reg_order, reg_limiters, reg_at, reg_calls,
                 outsideRegistry>>

\* the call just made: what was asked, when, what came back, whether
\* tool.execute ran, and the how-many-th check of the entry's limiter it was
\* (0 when the limiter was not consulted)
CallRecord(op, name, arguments, perms, r) ==
  [op |-> op, name |-> name, args |-> arguments, perms |-> perms,
   res |-> r.res, ran |-> r.ran,
   nth |-> IF name \in RegisteredNames /\ r.limiters # reg_limiters
             THEN reg_calls[name] + 1 ELSE 0]

\* whether the call reaches the limiter of a registered entry
Consults(r) == r.res.error \notin {NotFound, AccessDenied}

Count(tool_name, r) ==
  IF Consults(r) THEN [reg_calls EXCEPT ![tool_name] = @ + 1] ELSE reg_calls

\* a caller runs registry.execute(name, arguments)
Execute(tool_name, arguments) ==
  /\ tool_name \in RegisteredNames => reg_calls[tool_name] < MaxRegCalls
  /\ LET r == execute(tool_name, arguments)
     IN  /\ reg_limiters' = r.limiters
         /\ reg_calls' = Count(tool_name, r)
         /\ last_call' = CallRecord("execute", tool_name, arguments, {}, r)
  /\ UNCHANGED <<now, reg_tools, reg_order, reg_at, outsideRegistry>>

\* a caller runs registry.execute_secure(name, arguments, user_permissions)
ExecuteSecure(tool_name, arguments, user_permissions) ==
  /\ tool_name \in RegisteredNames => reg_calls[tool_name] < MaxRegCalls
  /\ LET r == execute_secure(tool_name, arguments, user_permissions)
     IN  /\ reg_limiters' = r.limiters
         /\ reg_calls' = Count(tool_name, r)
         /\ last_call' = CallRecord("execute_secure", tool_name, arguments,
                                    user_permissions, r)
  /\ UNCHANGED <<now, reg_tools, reg_order, reg_at, outsideRegistry>>

\* time passes between two registry calls (half a minute at a time)
RegistryTick ==
  /\ now + 30 <= MaxRegTime
  /\ now' = now + 30
  /\ UNCHANGED <<registryVars, outsideRegistry>>

RegistryInit ==
  /\ now = 0
  /\ RegistryEmpty
  /\ limiter = NewLimiter(1, 0)
  /\ created = 0
  /\ history = <<>>
  /\ ThreadsIdle
  /\ ClientIdle
  /\ PathIdle
  /\ AgentIdle

RegistryNext ==
  \/ \E tool \in ToolInstances, n \in 1..MaxLimit : Register(tool, n)
  \/ \E name \in CallNames, a \in ArgumentDicts : Execute(name, a)
  \/ \E name \in CallNames, a \in ArgumentDicts, q \in PermissionSets :
        ExecuteSecure(name, a, q)
  \/ GetSchemas
  \/ RegistryTick

SpecRegistry == RegistryInit /\ [][RegistryNext]_vars

\* ------------------------------------------------------------ os.path
\* A path string is kept as its "/"-separated components, each component a
\* sequence of characters, with a flag for a leading "/".
Names == {<<"a">>, <<"a", "b">>, <<"b">>}

DotDot == <<".", ".">>

Dot == <<".">>

\* sequences over S of length at most n
RECURSIVE SeqsUpTo(_, _)
SeqsUpTo(S, n) ==
  IF n = 0 THEN {<<>>}
  ELSE LET shorter == SeqsUpTo(S, n - 1)
       IN  shorter \cup {Append(q, x) : q \in shorter, x \in S}

\* canonical absolute directories
AbsDirs == SeqsUpTo(Names, MaxDepth)

Path(abs, comps) == [abs |-> abs, comps |-> comps]

\* base_dir arguments: ".", a relative name, or an absolute directory
BaseDirs ==
  {Path(FALSE, <<Dot>>)} \cup {Path(FALSE, <<n>>) : n \in Names}
    \cup {Path(TRUE, d) : d \in AbsDirs}

\* target_path arguments: "", ".", "..", names, and their combinations,
\* relative or with a leading "/"
TargetPaths ==
  {Path(a, c) : a \in BOOLEAN, c \in SeqsUpTo(Names \cup {Dot, DotDot}, MaxDepth)}

\* os.path.join(a, b): an absolute b discards a
join(a, b) == IF b.abs THEN b ELSE Path(a.abs, a.comps \o b.comps)

\* os.path.normpath of an absolute path: drops "" and ".", and lets ".."
\* remove the component before it (at the root it is dropped)
RECURSIVE normpath(_, _)
normpath(comps, stack) ==
  IF comps = <<>> THEN stack
  ELSE LET c == Head(comps)
       IN  IF c = <<>> \/ c = Dot THEN normpath(Tail(comps), stack)
           ELSE IF c = DotDot
             THEN normpath(Tail(comps),
                           IF stack = <<>> THEN stack
                           ELSE SubSeq(stack, 1, Len(stack) - 1))
             ELSE normpath(Tail(comps), Append(stack, c))

\* os.path.abspath: relative paths are joined to the working directory
abspath(p) == normpath(IF p.abs THEN p.comps ELSE cwd \o p.comps, <<>>)

\* the string of a canonical absolute path, character by character
RECURSIVE Chars(_)
Chars(comps) ==
  IF comps = <<>> THEN <<>>
  ELSE <<"/">> \o Head(comps) \o Chars(Tail(comps))

PathString(comps) == IF comps = <<>> THEN <<"/">> ELSE Chars(comps)

\* str.startswith
startswith(s, prefix) ==
  Len(prefix) <= Len(s) /\ SubSeq(s, 1, Len(prefix)) = prefix

\* (mutant) the check accepts proper descendants only, not base_dir itself
validate_strict_descendant(base_dir, target_path) ==
  LET abs_base   == abspath(base_dir)
      abs_target == abspath(join(base_dir, target_path))
  IN  IF abs_target = abs_base
         \/ ~startswith(PathString(abs_target), PathString(abs_base))
        THEN [raised |-> TRUE, path |-> <<>>]
        ELSE [raised |-> FALSE, path |-> abs_target]

\* PathSanitizer.validate_safe_path: the resolved path, or SecurityError
validate_safe_path(base_dir, target_path) ==
  LET abs_base   == abspath(base_dir)
      abs_target == abspath(join(base_dir, target_path))
  IN  IF ~startswith(PathString(abs_target), PathString(abs_base))
        THEN [raised |-> TRUE, path |-> <<>>]
        ELSE [raised |-> FALSE, path |-> abs_target]

\* ListFilesTool.BASE_DIR = "."
BASE_DIR == Path(FALSE, <<Dot>>)

\* a caller runs PathSanitizer.validate_safe_path(base_dir, target_path)
Validate(base_dir, target_path) ==
  /\ path_call.op = "none"
  /\ path_call' = [op |-> "validate", base_dir |-> base_dir, target |-> target_path,
                   out |-> validate_safe_path(base_dir, target_path),
                   listed |-> FALSE, res |-> "None"]
  /\ UNCHANGED <<cwd, outsidePath>>

\* ListFilesTool.execute(path=target_path); os.listdir returns the names or
\* raises OSError (no such directory, not a directory, no permission)
ListFiles(target_path, listdir_ok) ==
  LET out == validate_safe_path(BASE_DIR, target_path)
  IN  /\ path_call.op = "none"
      /\ path_call' = [op |-> "list_files", base_dir |-> BASE_DIR,
                       target |-> target_path, out |-> out,
                       listed |-> ~out.raised,
                       res |-> IF out.raised THEN "Security error"
                               ELSE IF listdir_ok THEN "files" ELSE "Error"]
      /\ UNCHANGED <<cwd, outsidePath>>

PathInit ==
  /\ cwd \in AbsDirs
  /\ path_call = [op |-> "none"]
  /\ now = 0
  /\ RegistryEmpty
  /\ limiter = NewLimiter(1, 0)
  /\ created = 0
  /\ history = <<>>
  /\ ThreadsIdle
  /\ ClientIdle
  /\ AgentIdle

\* a behaviour makes one call: arguments are drawn only while none was made
FirstCall(S) == IF path_call.op = "none" THEN S ELSE {}

PathNext ==
  \/ \E b \in FirstCall(BaseDirs), t \in TargetPaths : Validate(b, t)
  \/ \E t \in FirstCall(TargetPaths), ok \in BOOLEAN : ListFiles(t, ok)

SpecPath == PathInit /\ [][PathNext]_vars

\* ------------------------------------------------------------ CostTracker
\* Costs are counted in units of 0.00001 USD, the fixed per-token rate.
NoQuery == [open |-> FALSE]

\* QueryCost(query=query)
NewQuery ==
  [open |-> TRUE, steps |-> <<>>, total_cost_usd |-> 0,
   total_input_tokens |-> 0, total_output_tokens |-> 0]

\* usage metadata of a completion response: absent, or token counts
Usages == {[present |-> FALSE],
           [present |-> TRUE, prompt_tokens |-> 1, completion_tokens |-> 2]}

\* (mutant) add_step that leaves the cost total alone
add_step_without_cost(q, step) ==
  [q EXCEPT !.steps = Append(@, step),
            !.total_input_tokens = @ + step.input_tokens,
            !.total_output_tokens = @ + step.output_tokens]

\* QueryCost.add_step
add_step(q, step) ==
  [q EXCEPT !.steps = Append(@, step),
            !.total_cost_usd = @ + step.cost_usd,
            !.total_input_tokens = @ + step.input_tokens,
            !.total_output_tokens = @ + step.output_tokens]

\* CostTracker.log_completion: the value of _current_query afterwards
log_completion(q, step, usage) ==
  IF ~q.open THEN q
  ELSE LET input_tokens  == IF usage.present THEN usage.prompt_tokens ELSE 0
           output_tokens == IF usage.present THEN usage.completion_tokens ELSE 0
       IN  add_step(q, [step_number |-> step, input_tokens |-> input_tokens,
                        output_tokens |-> output_tokens,
                        cost_usd |-> input_tokens + output_tokens])

\* CostTracker.end_query: the list of closed queries afterwards
end_query(q, queries) == IF q.open THEN Append(queries, q) ELSE queries

\* what a caller of the CostTracker alone leaves untouched
outsideCost == <<max_steps, step_number, current_trace_id, traces, detector, run,
                 tool_runs, outsideAgent>>

\* a caller runs cost_tracker.start_query(query)
StartQuery ==
  /\ Len(cost_queries) + (IF cost_current.open THEN 1 ELSE 0) < MaxQueries
  /\ cost_current' = NewQuery
  /\ UNCHANGED <<cost_queries, outsideCost>>

\* a caller runs cost_tracker.log_completion(step_number, response)
LogCompletion(step, usage) ==
  /\ cost_current.open => Len(cost_current.steps) < MaxLogged
  /\ cost_current' = log_completion(cost_current, step, usage)
  /\ UNCHANGED <<cost_queries, outsideCost>>

\* a caller runs cost_tracker.end_query()
EndQuery ==
  /\ cost_queries' = end_query(cost_current, cost_queries)
  /\ cost_current' = NoQuery
  /\ UNCHANGED outsideCost

\* the step numbers a caller passes to log_completion
StepNumbers == {1, 2}

CostInit ==
  /\ now = 0
  /\ limiter = NewLimiter(1, 0)
  /\ created = 0
  /\ history = <<>>
  /\ ThreadsIdle
  /\ ClientIdle
  /\ RegistryEmpty
  /\ PathIdle
  /\ AgentIdle

CostNext ==
  \/ StartQuery
  \/ \E step \in StepNumbers, usage \in Usages : LogCompletion(step, usage)
  \/ EndQuery

SpecCost == CostInit /\ [][CostNext]_vars

\* ----------------------------------------------------------------- tracer
\* AgentTracer.start_trace: a new open trace; its id is its position
start_trace(ts) ==
  Append(ts, [status |-> "open", steps |-> <<>>, ends |-> 0, error |-> "<None>"])

\* AgentTracer.log_step
log_step(ts, trace_id, step) ==
  [ts EXCEPT ![trace_id].steps = Append(@, step)]

\* AgentTracer.end_trace
end_trace(ts, trace_id, status, error) ==
  [ts EXCEPT ![trace_id].status = status, ![trace_id].ends = @ + 1,
             ![trace_id].error = error]

\* ----------------------------------------------------------- loop detector
\* AdvancedLoopDetector.reset: all history is cleared
reset(d) == {}

\* check_tool_call / check_output_stagnation made by run r: the call or the
\* answer joins the history the later checks compare with
record_check(d, r) == d \cup {r}

\* ------------------------------------------------------- ObservableAgent
\* Texts: "<None>" is None, "" the empty string, the others non-empty.
Truthy(text) == text \notin {"<None>", ""}

\* message.content of a response without tool calls
Contents == {"<None>", "", "answer"}

LoopMessage == "loop detected"

ToolError == "Tool execution error"

MaxStepsMessage == "Max steps reached without final answer."

AgentFailed == "Agent failed"

\* call.function.arguments as the model wrote them: a JSON object with the
\* calculator's parameters, a JSON object without them, or no JSON at all
ArgumentStrings == {"valid", "other keys", "malformed"}

\* json.loads
json_loads(text) ==
  CASE text = "valid"      -> Return(AddArgs)
    [] text = "other keys" -> Return(PathArgs)
    [] OTHER               -> Raise("JSONDecodeError")

\* tool.execute(**args_dict): the dict's items are passed as keywords; the
\* call raises TypeError when a required parameter has no keyword
execute_keywords(tool, args_dict) ==
  IF \E q \in Range(RequiredParams(tool)) : q \notin DOMAIN args_dict
    THEN Raise("TypeError: missing required positional arguments")
    ELSE Return(calculate(args_dict.operation, args_dict.operand_a,
                          args_dict.operand_b))

\* lines 147-149: parse the arguments, look the tool up, run it
dispatch(tool_name, tool_args) ==
  LET parsed == json_loads(tool_args)
  IN  IF parsed.raised THEN parsed
      ELSE IF tool_name \notin RegisteredNames
        THEN Raise("AttributeError: 'NoneType' object has no attribute 'execute'")
        ELSE execute_keywords(reg_tools[tool_name], parsed.value)

Set(r, fields) == [run EXCEPT ![r] = fields @@ run[r]]

Goto(r, label) == [run EXCEPT ![r].pc = label]

\* an exception with text e is raised inside the try block (lines 87-191)
Fail(r, e) == [run EXCEPT ![r].pc = "handler", ![r].error = e]

\* run() is left: its locals are gone, the caller holds what it returned
Leave(r, label, answer) ==
  [run EXCEPT ![r] = [NotStarted EXCEPT !.pc = label, !.answer = answer,
                                       !.trace = run[r].trace]]

\* no other run() call of this agent is in progress
Alone(r) ==
  /\ \A q \in Runs \ {r} : run[q].pc \in {"idle", "returned", "raised"}
  /\ \A q \in Runs : q < r => run[q].pc # "idle"

\* lines 67-72: the trace is started before the try block
BeginTrace(r, fault) ==
  /\ run[r].pc = "idle"
  /\ IF fault
       THEN /\ run' = Leave(r, "raised", "<None>")
            /\ UNCHANGED <<traces, current_trace_id>>
       ELSE /\ traces' = start_trace(traces)
            /\ current_trace_id' = Len(traces) + 1
            /\ run' = Set(r, [pc |-> "reset", trace |-> Len(traces) + 1])
  /\ tool_runs' = 0
  /\ UNCHANGED <<max_steps, step_number, cost_current, cost_queries, detector,
                 outsideAgent>>

\* run() is called while no other call is in progress
StartTrace(r, fault) == Alone(r) /\ BeginTrace(r, fault)

\* (mutant) run() does not reset the loop detector
ResetDetectorSkipsReset(r, fault, system_prompt) ==
  /\ run[r].pc = "reset"
  /\ cost_current' = NewQuery
  /\ step_number' = 0
  /\ run' = Set(r, [pc |-> "loop",
                    messages |-> IF system_prompt THEN <<"system", "user">>
                                                   ELSE <<"user">>,
                    final_answer |-> "<None>"])
  /\ UNCHANGED <<max_steps, current_trace_id, traces, cost_queries, tool_runs,
                 detector, outsideAgent>>

\* lines 73-85: start_query, step counter, detector reset, first messages
ResetDetector(r, fault, system_prompt) ==
  /\ run[r].pc = "reset"
  /\ cost_current' = NewQuery
  /\ step_number' = 0
  /\ IF fault
       THEN /\ run' = Leave(r, "raised", "<None>")
            /\ UNCHANGED detector
       ELSE /\ detector' = reset(detector)
            /\ run' = Set(r, [pc |-> "loop", resets |-> run[r].resets + 1,
                              messages |-> IF system_prompt THEN <<"system", "user">>
                                                             ELSE <<"user">>,
                              final_answer |-> "<None>"])
  /\ UNCHANGED <<max_steps, current_trace_id, traces, cost_queries, tool_runs,
                 outsideAgent>>

\* (mutant) the loop test lets one step too many through
LoopHeadOffByOne(r) ==
  /\ run[r].pc = "loop"
  /\ IF step_number <= max_steps
       THEN /\ step_number' = step_number + 1
            /\ run' = Goto(r, "await")
       ELSE /\ run' = Goto(r, "after_loop")
            /\ UNCHANGED step_number
  /\ UNCHANGED <<max_steps, current_trace_id, traces, cost_current, cost_queries,
                 detector, tool_runs, outsideAgent>>

\* (mutant) the step counter is advanced by two
LoopHeadCountsTwice(r) ==
  /\ run[r].pc = "loop"
  /\ IF step_number < max_steps
       THEN /\ step_number' = step_number + 2
            /\ run' = Goto(r, "await")
       ELSE /\ run' = Goto(r, "after_loop")
            /\ UNCHANGED step_number
  /\ UNCHANGED <<max_steps, current_trace_id, traces, cost_current, cost_queries,
                 detector, tool_runs, outsideAgent>>

\* lines 88-98: the loop test, the step counter, the completion request
LoopHead(r) ==
  /\ run[r].pc = "loop"
  /\ IF step_number < max_steps
       THEN /\ step_number' = step_number + 1
            /\ run' = Goto(r, "await")
       ELSE /\ run' = Goto(r, "after_loop")
            /\ UNCHANGED step_number
  /\ UNCHANGED <<max_steps, current_trace_id, traces, cost_current, cost_queries,
                 detector, tool_runs, outsideAgent>>

\* (mutant) a failed completion is swallowed and the loop goes on
CompletionRaisesRetries(r) ==
  /\ run[r].pc = "await"
  /\ run' = Goto(r, "loop")
  /\ UNCHANGED <<max_steps, step_number, current_trace_id, traces, cost_current,
                 cost_queries, detector, tool_runs, outsideAgent>>

\* line 92: the awaited completion raises
CompletionRaises(r) ==
  /\ run[r].pc = "await"
  /\ run' = Fail(r, "transport error")
  /\ UNCHANGED <<max_steps, step_number, current_trace_id, traces, cost_current,
                 cost_queries, detector, tool_runs, outsideAgent>>

\* lines 92-132: the completion returns ntools tool calls (0: a final text)
Completion(r, ntools, content, usage) ==
  /\ run[r].pc = "await"
  /\ cost_current' = log_completion(cost_current, step_number, usage)
  /\ run' = IF ntools = 0
              THEN Set(r, [pc |-> "answer", content |-> content,
                           completions |-> run[r].completions + 1])
              ELSE Set(r, [pc |-> "tool_loop", content |-> "<None>",
                           pending |-> ntools,
                           completions |-> run[r].completions + 1,
                           messages |-> Append(run[r].messages, "assistant")])
  /\ UNCHANGED <<max_steps, step_number, current_trace_id, traces, cost_queries,
                 detector, tool_runs, outsideAgent>>

\* lines 113-120: the text is the final answer unless the detector objects
Answer(r, looping, fault) ==
  /\ run[r].pc = "answer"
  /\ IF fault
       THEN /\ run' = Set(r, [pc |-> "handler", error |-> "detector error",
                                  final_answer |-> run[r].content])
            /\ UNCHANGED detector
       ELSE /\ detector' = record_check(detector, r)
            /\ run' = Set(r, [pc |-> "log_answer",
                              final_answer |-> IF looping THEN LoopMessage
                                               ELSE run[r].content])
  /\ UNCHANGED <<max_steps, step_number, current_trace_id, traces, cost_current,
                 cost_queries, tool_runs, outsideAgent>>

\* lines 122-124: log the step and leave the loop
LogAnswerStep(r, fault) ==
  /\ run[r].pc = "log_answer"
  /\ IF fault
       THEN /\ run' = Fail(r, "tracer error")
            /\ UNCHANGED traces
       ELSE /\ traces' = log_step(traces, current_trace_id, step_number)
            /\ run' = Goto(r, "after_loop")
  /\ UNCHANGED <<max_steps, step_number, current_trace_id, cost_current,
                 cost_queries, detector, tool_runs, outsideAgent>>

\* (mutant) a reported loop sets the final answer but the call still runs
CheckToolCallNoBreak(r, looping, fault) ==
  /\ run[r].pc = "tool_loop"
  /\ IF fault
       THEN /\ run' = Fail(r, "detector error")
            /\ UNCHANGED detector
       ELSE /\ detector' = record_check(detector, r)
            /\ run' = IF looping
                        THEN Set(r, [pc |-> "dispatch", final_answer |-> LoopMessage])
                        ELSE Goto(r, "dispatch")
  /\ UNCHANGED <<max_steps, step_number, current_trace_id, traces, cost_current,
                 cost_queries, tool_runs, outsideAgent>>

\* lines 134-144: the loop check of the next tool call
CheckToolCall(r, looping, fault) ==
  /\ run[r].pc = "tool_loop"
  /\ IF fault
       THEN /\ run' = Fail(r, "detector error")
            /\ UNCHANGED detector
       ELSE /\ detector' = record_check(detector, r)
            /\ run' = IF looping
                        THEN Set(r, [pc |-> "log_step", final_answer |-> LoopMessage])
                        ELSE Goto(r, "dispatch")
  /\ UNCHANGED <<max_steps, step_number, current_trace_id, traces, cost_current,
                 cost_queries, tool_runs, outsideAgent>>

\* lines 146-172: run the tool call; any exception ends the for loop with
\* the error text as final answer
Dispatch(r, tool_name, tool_args) ==
  /\ run[r].pc = "dispatch"
  /\ LET out == dispatch(tool_name, tool_args)
     IN  IF out.raised
           THEN /\ run' = Set(r, [pc |-> "log_step", final_answer |-> ToolError,
                                  tool_failures |-> run[r].tool_failures + 1])
                /\ UNCHANGED tool_runs
           ELSE /\ tool_runs' = tool_runs + 1
                /\ run' = Set(r, [pc |-> IF run[r].pending = 1 THEN "log_step"
                                                               ELSE "tool_loop",
                                  pending |-> run[r].pending - 1,
                                  messages |-> Append(run[r].messages, "tool")])
  /\ UNCHANGED <<max_steps, step_number, current_trace_id, traces, cost_current,
                 cost_queries, detector, outsideAgent>>

\* (mutant) a step with tool calls is not logged
LogStepNotLogged(r, fault) ==
  /\ run[r].pc = "log_step"
  /\ IF fault
       THEN /\ run' = Fail(r, "tracer error")
       ELSE /\ run' = Goto(r, IF Truthy(run[r].final_answer) THEN "after_loop"
                                                             ELSE "loop")
  /\ UNCHANGED <<max_steps, step_number, current_trace_id, cost_current, traces,
                 cost_queries, detector, tool_runs, outsideAgent>>

\* lines 174-178: log the step; a final answer ends the while loop
LogStep(r, fault) ==
  /\ run[r].pc = "log_step"
  /\ IF fault
       THEN /\ run' = Fail(r, "tracer error")
            /\ UNCHANGED traces
       ELSE /\ traces' = log_step(traces, current_trace_id, step_number)
            /\ run' = Goto(r, IF Truthy(run[r].final_answer) THEN "after_loop"
                                                             ELSE "loop")
  /\ UNCHANGED <<max_steps, step_number, current_trace_id, cost_current,
                 cost_queries, detector, tool_runs, outsideAgent>>

\* (mutant) the normal return forgets to end the trace
AfterLoopLeavesTraceOpen(r, fault) ==
  /\ run[r].pc = "after_loop"
  /\ LET final == IF Truthy(run[r].final_answer) THEN run[r].final_answer
                                                ELSE MaxStepsMessage
     IN  IF fault
           THEN /\ run' = Set(r, [pc |-> "handler", error |-> "tracer error",
                                  final_answer |-> final])
                /\ UNCHANGED <<traces, cost_current, cost_queries>>
           ELSE /\ cost_queries' = end_query(cost_current, cost_queries)
                /\ cost_current' = NoQuery
                /\ run' = Leave(r, "returned", final)
                /\ UNCHANGED traces
  /\ UNCHANGED <<max_steps, step_number, current_trace_id, detector, tool_runs,
                 outsideAgent>>

\* (mutant) the normal return hands out the final answer as it stands
AfterLoopWithoutFallback(r, fault) ==
  /\ run[r].pc = "after_loop"
  /\ LET final == run[r].final_answer
     IN  IF fault
           THEN /\ run' = Set(r, [pc |-> "handler", error |-> "tracer error",
                                  final_answer |-> final])
                /\ UNCHANGED <<traces, cost_current, cost_queries>>
           ELSE /\ traces' = end_trace(traces, current_trace_id, "completed", "<None>")
                /\ cost_queries' = end_query(cost_current, cost_queries)
                /\ cost_current' = NoQuery
                /\ run' = Leave(r, "returned", final)
  /\ UNCHANGED <<max_steps, step_number, current_trace_id, detector, tool_runs,
                 outsideAgent>>

\* lines 180-191: fallback text, end_trace, end_query, return
AfterLoop(r, fault) ==
  /\ run[r].pc = "after_loop"
  /\ LET final == IF Truthy(run[r].final_answer) THEN run[r].final_answer
                                                ELSE MaxStepsMessage
     IN  IF fault
           THEN /\ run' = Set(r, [pc |-> "handler", error |-> "tracer error",
                                  final_answer |-> final])
                /\ UNCHANGED <<traces, cost_current, cost_queries>>
           ELSE /\ traces' = end_trace(traces, current_trace_id, "completed", "<None>")
                /\ cost_queries' = end_query(cost_current, cost_queries)
                /\ cost_current' = NoQuery
                /\ run' = Leave(r, "returned", final)
  /\ UNCHANGED <<max_steps, step_number, current_trace_id, detector, tool_runs,
                 outsideAgent>>

\* (mutant) the handler returns without closing the cost query
HandlerLeavesQueryOpen(r, fault) ==
  /\ run[r].pc = "handler"
  /\ IF fault
       THEN /\ run' = Leave(r, "raised", "<None>")
            /\ UNCHANGED traces
       ELSE /\ traces' = end_trace(traces, current_trace_id, "error", run[r].error)
            /\ run' = Leave(r, "returned", AgentFailed)
  /\ UNCHANGED <<max_steps, step_number, current_trace_id, detector, tool_runs,
                 cost_current, cost_queries, outsideAgent>>

\* lines 193-204: the handler ends the trace itself; a fault there propagates
Handler(r, fault) ==
  /\ run[r].pc = "handler"
  /\ IF fault
       THEN /\ run' = Leave(r, "raised", "<None>")
            /\ UNCHANGED <<traces, cost_current, cost_queries>>
       ELSE /\ traces' = end_trace(traces, current_trace_id, "error", run[r].error)
            /\ cost_queries' = end_query(cost_current, cost_queries)
            /\ cost_current' = NoQuery
            /\ run' = Leave(r, "returned", AgentFailed)
  /\ UNCHANGED <<max_steps, step_number, current_trace_id, detector, tool_runs,
                 outsideAgent>>

\* the registry the agent looks its tools up in: the calculator, registered
\* with a limit of n calls per minute (the agent's runs use n = 1)
AgentRegistry(n) ==
  /\ reg_tools = [x \in {"execute_calculation"} |-> [kind |-> "calculator", id |-> 1]]
  /\ reg_order = <<"execute_calculation">>
  /\ reg_limiters = [x \in {"execute_calculation"} |-> NewLimiter(n, 0)]
  /\ reg_at = [x \in {"execute_calculation"} |-> 0]
  /\ reg_calls = [x \in {"execute_calculation"} |-> 0]
  /\ last_call = [op |-> "none"]

AgentInit ==
  /\ max_steps \in 1..MaxSteps
  /\ AgentCreated
  /\ AgentRegistry(1)
  /\ now = 0
  /\ limiter = NewLimiter(1, 0)
  /\ created = 0
  /\ history = <<>>
  /\ ThreadsIdle
  /\ ClientIdle
  /\ PathIdle

AgentNext ==
  \/ \E r \in Runs, fault \in BOOLEAN : StartTrace(r, fault)
  \/ \E r \in Runs, fault \in BOOLEAN, sp \in BOOLEAN : ResetDetector(r, fault, sp)
  \/ \E r \in Runs : LoopHead(r)
  \/ \E r \in Runs : CompletionRaises(r)
  \/ \E r \in Runs, n \in 0..MaxToolCalls, c \in Contents, u \in Usages :
        Completion(r, n, c, u)
  \/ \E r \in Runs, looping \in BOOLEAN, fault \in BOOLEAN : Answer(r, looping, fault)
  \/ \E r \in Runs, fault \in BOOLEAN : LogAnswerStep(r, fault)
  \/ \E r \in Runs, looping \in BOOLEAN, fault \in BOOLEAN :
        CheckToolCall(r, looping, fault)
  \/ \E r \in Runs, name \in {"execute_calculation", "unknown_tool"},
        a \in ArgumentStrings : Dispatch(r, name, a)
  \/ \E r \in Runs, fault \in BOOLEAN : LogStep(r, fault)
  \/ \E r \in Runs, fault \in BOOLEAN : AfterLoop(r, fault)
  \/ \E r \in Runs, fault \in BOOLEAN : Handler(r, fault)

SpecAgent == AgentInit /\ [][AgentNext]_vars

\* the runs in which tracer and loop detector do their work without raising;
\* the completion transport may still raise and tool calls may still fail
HealthyNext ==
  \/ \E r \in Runs : StartTrace(r, FALSE)
  \/ \E r \in Runs, sp \in BOOLEAN : ResetDetector(r, FALSE, sp)
  \/ \E r \in Runs : LoopHead(r)
  \/ \E r \in Runs : CompletionRaises(r)
  \/ \E r \in Runs, n \in 0..MaxToolCalls, c \in Contents, u \in Usages :
        Completion(r, n, c, u)
  \/ \E r \in Runs, looping \in BOOLEAN : Answer(r, looping, FALSE)
  \/ \E r \in Runs : LogAnswerStep(r, FALSE)
  \/ \E r \in Runs, looping \in BOOLEAN : CheckToolCall(r, looping, FALSE)
  \/ \E r \in Runs, name \in {"execute_calculation", "unknown_tool"},
        a \in ArgumentStrings : Dispatch(r, name, a)
  \/ \E r \in Runs : LogStep(r, FALSE)
  \/ \E r \in Runs : AfterLoop(r, FALSE)
  \/ \E r \in Runs : Handler(r, FALSE)

SpecAgentHealthy == AgentInit /\ [][HealthyNext]_vars

\* Two run() calls on one event loop, e.g. asyncio.gather(agent.run(a),
\* agent.run(b)): only one coroutine executes at a time, and a run gives up
\* control only at 'await acompletion' (line 92).
Suspended(r) ==
  /\ \A q \in Runs \ {r} : run[q].pc \in {"idle", "await", "returned", "raised"}
  /\ \A q \in Runs : q < r => run[q].pc # "idle"

InterleavedNext ==
  \/ \E r \in Runs : Suspended(r) /\ BeginTrace(r, FALSE)
  \/ \E r \in Runs, sp \in BOOLEAN : Suspended(r) /\ ResetDetector(r, FALSE, sp)
  \/ \E r \in Runs : Suspended(r) /\ LoopHead(r)
  \/ \E r \in Runs : Suspended(r) /\ CompletionRaises(r)
  \/ \E r \in Runs, n \in 0..MaxToolCalls, c \in Contents, u \in Usages :
        Suspended(r) /\ Completion(r, n, c, u)
  \/ \E r \in Runs, looping \in BOOLEAN : Suspended(r) /\ Answer(r, looping, FALSE)
  \/ \E r \in Runs : Suspended(r) /\ LogAnswerStep(r, FALSE)
  \/ \E r \in Runs, looping \in BOOLEAN : Suspended(r) /\ CheckToolCall(r, looping, FALSE)
  \/ \E r \in Runs, name \in {"execute_calculation", "unknown_tool"},
        a \in ArgumentStrings : Suspended(r) /\ Dispatch(r, name, a)
  \/ \E r \in Runs : Suspended(r) /\ LogStep(r, FALSE)
  \/ \E r \in Runs : Suspended(r) /\ AfterLoop(r, FALSE)
  \/ \E r \in Runs : Suspended(r) /\ Handler(r, FALSE)

SpecAgentInterleaved == AgentInit /\ [][InterleavedNext]_vars

\* a step of a run() call that is in progress
RunProgress ==
  /\ \E r \in Runs : run[r].pc \notin {"idle", "returned", "raised"}
  /\ HealthyNext

\* run() is a coroutine the event loop resumes whenever what it awaits is
\* done: with every completion call and tool call returning or raising, a
\* run in progress is not left waiting forever
SpecAgentFair == SpecAgentHealthy /\ WF_vars(RunProgress)

\* ------------------------------------------------------- HuggingFaceClient
\* what one request can come back with: an HTTP response with a status code,
\* or requests.exceptions.Timeout raised by requests.post
Statuses == {200, 202, 404, 429, 503}

Response(status) == [kind |-> "response", status |-> status]

TimedOutRequest == [kind |-> "timeout"]

RetryDelays == {1, 5}

\* HuggingFaceClient.__init__
NewClient(max_retries, retry_delay) ==
  [pc          |-> "ready",
   max_retries |-> max_retries,
   retry_delay |-> retry_delay,
   attempt     |-> 0,
   response    |-> None,
   sent        |-> <<>>,
   sleeps      |-> <<>>,
   result      |-> "<None>"]

\* response.raise_for_status() where response is the local variable of
\* query(): the exception the call ends with, "<None>" when it returns.  The
\* variable still holds None when no request has been answered yet; a response
\* raises HTTPError for the statuses 400..599 and nothing for any other.
raise_for_status(response) ==
  IF response = None
    THEN "AttributeError"
    ELSE IF response.status >= 400 /\ response.status < 600
           THEN "HTTPError"
           ELSE "<None>"

\* query() ends with the exception e
QueryRaises(c, e) == [c EXCEPT !.pc = "raised", !.result = e]

\* the for loop moves to its next iteration; after the last one the
\* statement behind the loop raises RuntimeError
NextAttempt(c) ==
  IF c.attempt + 1 < c.max_retries
    THEN [c EXCEPT !.attempt = @ + 1]
    ELSE [c EXCEPT !.attempt = @ + 1, !.pc = "raised", !.result = "RuntimeError"]

\* time.sleep(seconds)
Sleep(c, seconds) == [c EXCEPT !.sleeps = Append(@, seconds)]

\* requests.post returned a response: it is bound to the local variable
Answered(c, status) ==
  [c EXCEPT !.response = Response(status), !.sent = Append(@, Response(status))]

\* query() is called: response = None, the loop starts at attempt 0
Query ==
  /\ client.pc = "ready"
  /\ client' = IF client.max_retries > 0
                 THEN [client EXCEPT !.pc = "request"]
                 ELSE QueryRaises(client, "RuntimeError")
  /\ UNCHANGED outsideClient

\* the request is answered 200: the body is returned
Respond200 ==
  /\ client.pc = "request"
  /\ client' = [Answered(client, 200) EXCEPT !.pc = "returned", !.result = "body"]
  /\ UNCHANGED outsideClient

\* the request is answered 503: sleep retry_delay, continue
Respond503 ==
  /\ client.pc = "request"
  /\ client' = NextAttempt(Sleep(Answered(client, 503), client.retry_delay))
  /\ UNCHANGED outsideClient

\* the request is answered 429: sleep retry_delay * 2 ** attempt, continue
Respond429 ==
  /\ client.pc = "request"
  /\ LET wait_time == client.retry_delay * (2 ^ client.attempt)
     IN  client' = NextAttempt(Sleep(Answered(client, 429), wait_time))
  /\ UNCHANGED outsideClient

\* the request is answered with another status: response.raise_for_status()
\* ends the call when it raises; when it returns, the try block is over and
\* the loop goes on
RespondOther(status) ==
  /\ client.pc = "request"
  /\ status \notin {200, 503, 429}
  /\ LET c == Answered(client, status)
         e == raise_for_status(c.response)
     IN  client' = IF e # "<None>" THEN QueryRaises(c, e) ELSE NextAttempt(c)
  /\ UNCHANGED outsideClient

\* requests.post raises Timeout: the local variable keeps what it held.  The
\* first of the two handlers for Timeout runs, and it calls
\* response.raise_for_status(); the second handler is never entered.
TimedOut ==
  /\ client.pc = "request"
  /\ LET c == [client EXCEPT !.sent = Append(@, TimedOutRequest)]
         e == raise_for_status(c.response)
     IN  client' = IF e # "<None>" THEN QueryRaises(c, e) ELSE NextAttempt(c)
  /\ UNCHANGED outsideClient

ClientInit ==
  /\ \E m \in 0..MaxRetries, d \in RetryDelays : client = NewClient(m, d)
  /\ now = 0
  /\ limiter = NewLimiter(1, 0)
  /\ created = 0
  /\ history = <<>>
  /\ ThreadsIdle
  /\ RegistryEmpty
  /\ PathIdle
  /\ AgentIdle

ClientNext ==
  \/ Query
  \/ Respond200
  \/ Respond503
  \/ Respond429
  \/ \E status \in Statuses : RespondOther(status)
  \/ TimedOut

SpecClient == ClientInit /\ [][ClientNext]_vars

\* ------------------------------------------------- claims on the limiter
Capacity == limiter.calls_per_minute

\* The first k calls were all made at the constructor's clock reading.
Immediate(k) == \A j \in 1..k : history[j].at = created

\* Calls Capacity+1 .. k were all made 60/Capacity seconds after construction.
AfterOneTokenTime(k) ==
  \A j \in (Capacity + 1)..k :
     (history[j].at - created) * Capacity = SecondsPerMinute

\* C2: the allowance of a limiter of capacity C always satisfies
\* 0 <= allowance <= C, whatever the clock readings between the calls.
C2_AllowanceWithinBounds ==
  /\ 0 <= limiter.allowance
  /\ limiter.allowance <= Capacity * Token

\* C7: with no time elapsing since construction, the k-th call is admitted
\* exactly when k <= C: the first C return True and the (C+1)-th False.
C7_BurstEqualsCapacity ==
  \A k \in 1..Len(history) :
     Immediate(k) => (history[k].ok <=> k <= Capacity)

C7_Witness ==
  /\ Len(history) = Capacity + 1
  /\ Immediate(Capacity + 1)
  /\ ~history[Capacity + 1].ok

\* C8: after C immediate calls drained the bucket, of the calls made 60/C
\* seconds later with no further delay only the first is admitted.
C8_OneTokenAfterWait ==
  \A k \in (Capacity + 1)..Len(history) :
     (Immediate(Capacity) /\ AfterOneTokenTime(k))
        => (history[k].ok <=> k = Capacity + 1)

C8_Witness ==
  /\ Len(history) = Capacity + 2
  /\ Immediate(Capacity)
  /\ AfterOneTokenTime(Capacity + 2)
  /\ history[Capacity + 1].ok
  /\ ~history[Capacity + 2].ok

\* ------------------------------------------- claims on concurrent callers
InCriticalSection(t) == pc[t] \in {"refill", "cap", "check", "spend"}

\* C9: the refill, decision and decrement of concurrent is_allowed calls do
\* not interleave (at most one thread is between line 44 and line 68); with
\* no time elapsing the calls admitted never exceed the whole tokens the
\* fresh bucket held, and the allowance never goes below 0.
C9_CallsSerialized ==
  /\ Cardinality({t \in Threads : InCriticalSection(t)}) <= 1
  /\ now = created => /\ admitted <= Capacity
                      /\ limiter.allowance >= 0

C9_Witness ==
  /\ now = created
  /\ admitted = Capacity
  /\ denied >= 1
  /\ \A t \in Threads : tcalls[t] >= 1
  /\ \E t \in Threads : InCriticalSection(t)

\* ------------------------------------------------ claims on the registry
\* the step is the registry call that last_call' describes
IsCall(op) == now' = now /\ last_call'.op = op

\* the caller of the call described by c lacks a permission the tool requires
LacksPermission(c) ==
  /\ c.name \in RegisteredNames
  /\ ~(Range(ToolPermissions(reg_tools[c.name])) \subseteq c.perms)

\* C1: execute_secure by a caller lacking a required permission returns
\* Access Denied, does not invoke the tool and leaves every limiter
\* (allowance and last_check) as it was.
C1_DeniedCallLeavesLimiters ==
  [][(IsCall("execute_secure") /\ LacksPermission(last_call'))
       => /\ last_call'.res = ResultDict(FALSE, None, AccessDenied)
          /\ ~last_call'.ran
          /\ reg_limiters' = reg_limiters]_vars

\* a denied call after which the tool's bucket is still full
C1_Witness ==
  /\ last_call.op = "execute_secure"
  /\ LacksPermission(last_call)
  /\ last_call.res.error = AccessDenied
  /\ reg_limiters[last_call.name].allowance
        = reg_limiters[last_call.name].calls_per_minute * Token
  /\ now > reg_at[last_call.name]

\* the number the calculator computes for an argument dict
ComputedValue(arguments) ==
  calculate(arguments.operation, arguments.operand_a, arguments.operand_b).result

\* the latest call was the k-th rapid execute, with valid arguments, of a tool
\* that requires no permission, all since its registration at this reading
RapidCall(k) ==
  /\ last_call.op = "execute"
  /\ last_call.name \in RegisteredNames
  /\ ToolPermissions(reg_tools[last_call.name]) = <<>>
  /\ last_call.args = AddArgs
  /\ now = reg_at[last_call.name]
  /\ last_call.nth = k

\* C10: for a tool registered with limit N and no required permissions, each
\* of N rapid execute calls invokes the tool and returns success with the
\* computed value; the (N+1)-th returns a rate-limit failure, tool not invoked.
C10_RapidCallsSucceedThenLimit ==
  \A k \in 1..(MaxLimit + 1) :
     RapidCall(k) =>
        LET N == reg_limiters[last_call.name].calls_per_minute
        IN  /\ k <= N => /\ last_call.ran
                         /\ last_call.res = ResultDict(TRUE, ComputedValue(last_call.args), "None")
            /\ k = N + 1 => /\ ~last_call.ran
                            /\ last_call.res = ResultDict(FALSE, None, RateLimited)

\* a call of execute for this name and these arguments gets past the lookup
\* and the limiter, and the tool then raises
ToolRaises(name, arguments) ==
  /\ name \in RegisteredNames
  /\ is_allowed(reg_limiters[name], now).ok
  /\ execute_positional(reg_tools[name], arguments).raised

\* C11: when the tool raises while execute runs it, execute returns
\* success=false with the fault's message as error, and the registry keeps
\* its tools and its limiters for later calls.
C11_ToolFaultIsReturned ==
  [][(IsCall("execute") /\ ToolRaises(last_call'.name, last_call'.args))
       => /\ last_call'.ran
          /\ last_call'.res =
               ResultDict(FALSE, None,
                          execute_positional(reg_tools[last_call'.name],
                                             last_call'.args).error)
          /\ reg_tools' = reg_tools
          /\ DOMAIN reg_limiters' = DOMAIN reg_limiters]_vars

\* a second call of a tool whose first call raised: it ran and failed again
C11_Witness ==
  /\ last_call.op = "execute"
  /\ last_call.ran
  /\ last_call.res.kind = "dict"
  /\ ~last_call.res.success
  /\ last_call.nth = 2

\* C12: every call of execute and execute_secure returns a record with
\* exactly the fields success, result and error; none raises.
C12_CallsReturnResultDict ==
  last_call.op \in {"execute", "execute_secure"}
    => /\ last_call.res.kind = "dict"
       /\ DOMAIN last_call.res = {"kind", "success", "result", "error"}
       /\ last_call.res.success \in BOOLEAN

\* each kind of outcome has been returned as such a record: here a call
\* denied for a missing permission
C12_Witness ==
  /\ last_call.op = "execute_secure"
  /\ last_call.res = ResultDict(FALSE, None, AccessDenied)

\* C13: execute and execute_secure for a name that is not registered return
\* the not-found failure, invoke no tool and change no limiter.
C13_UnknownNameTouchesNothing ==
  [][((IsCall("execute") \/ IsCall("execute_secure"))
        /\ last_call'.name \notin RegisteredNames)
       => /\ last_call'.res = ResultDict(FALSE, None, NotFound)
          /\ ~last_call'.ran
          /\ reg_limiters' = reg_limiters
          /\ reg_tools' = reg_tools]_vars

\* an unknown name was asked for while a registered tool had used tokens
C13_Witness ==
  /\ last_call.op \in {"execute", "execute_secure"}
  /\ last_call.name \notin RegisteredNames
  /\ last_call.res.error = NotFound
  /\ \E x \in RegisteredNames :
        reg_limiters[x].allowance < reg_limiters[x].calls_per_minute * Token

\* the step registers a tool under a name that is already registered
IsReRegistration ==
  /\ now' = now
  /\ last_call'.op = "register"
  /\ last_call'.name \in RegisteredNames

\* C14: register(tool, n) for a registered name replaces the entry: get_tool
\* returns the new tool, the limiter is a new one of capacity n, the set of
\* names is the same and every other entry keeps its tool and limiter state.
C14_ReRegisterReplacesEntry ==
  [][\A name \in RegisteredNames :
       (IsReRegistration /\ last_call'.name = name)
       =>     /\ get_tool(name)' = last_call'.tool
              /\ reg_limiters'[name] = NewLimiter(last_call'.limit, now)
              /\ DOMAIN reg_tools' = RegisteredNames
              /\ DOMAIN reg_limiters' = DOMAIN reg_limiters
              /\ \A x \in RegisteredNames \ {name} :
                    /\ reg_tools'[x] = reg_tools[x]
                    /\ reg_limiters'[x] = reg_limiters[x]]_vars

\* the first of two entries was registered again, at a later clock reading,
\* while the other entry's bucket was partly used
C14_Witness ==
  /\ last_call.op = "register"
  /\ Len(reg_order) = 2
  /\ reg_order[1] = last_call.name
  /\ reg_tools[last_call.name].id = 2
  /\ reg_at[last_call.name] > reg_at[reg_order[2]]
  /\ reg_limiters[reg_order[2]].allowance
        < reg_limiters[reg_order[2]].calls_per_minute * Token

\* the names of a list of schemas
SchemaNames(schemas) == [i \in DOMAIN schemas |-> schemas[i].name]

\* the position of a name in the registration order
Position(name) == CHOOSE i \in DOMAIN reg_order : reg_order[i] = name

\* C15: get_schemas returns exactly one schema per registered name, in the
\* order in which the names were registered (a new name's schema goes to the
\* end, a replaced entry keeps its place), and two calls with no register
\* between them return the same list.
C15_SchemasInRegistrationOrder ==
  /\ [](/\ Len(get_schemas) = Cardinality(RegisteredNames)
        /\ Range(SchemaNames(get_schemas)) = RegisteredNames
        /\ last_call.op = "get_schemas" => last_call.res = get_schemas)
  /\ [][(now' = now /\ last_call'.op = "register")
          => get_schemas' =
               IF last_call'.name \in RegisteredNames
                 THEN [get_schemas EXCEPT ![Position(last_call'.name)] =
                                             get_schema(last_call'.tool)]
                 ELSE Append(get_schemas, get_schema(last_call'.tool))]_vars
  /\ [][(last_call.op = "get_schemas" /\ last_call'.op = "get_schemas")
          => last_call'.res = last_call.res]_vars

\* get_schemas returned two schemas, the calculator's registered second
C15_Witness ==
  /\ last_call.op = "get_schemas"
  /\ SchemaNames(last_call.res) = <<"list_files", "execute_calculation">>


\* d is base itself or a descendant of base (component-wise containment)
IsWithin(d, base) == Len(base) <= Len(d) /\ SubSeq(d, 1, Len(base)) = base

CanonicalBase == abspath(path_call.base_dir)

CanonicalTarget == abspath(join(path_call.base_dir, path_call.target))

\* the target is "../x" for a name x other than base_dir's own last component
\* (for which "../x" is base_dir itself), and base_dir is not the root
IsParentEscape ==
  /\ ~path_call.target.abs
  /\ Len(path_call.target.comps) = 2
  /\ path_call.target.comps[1] = DotDot
  /\ path_call.target.comps[2] \in Names
  /\ CanonicalBase # <<>>
  /\ path_call.target.comps[2] # CanonicalBase[Len(CanonicalBase)]

\* C3: validate_safe_path returns a path only when the canonical joined path
\* is base_dir or a descendant of it; "../x" is rejected whenever base_dir has
\* a parent; ListFilesTool lists nothing for which the check failed.
C3_OnlyPathsInsideBase ==
  path_call.op # "none" =>
    /\ ~path_call.out.raised => IsWithin(CanonicalTarget, CanonicalBase)
    /\ IsParentEscape => path_call.out.raised
    /\ path_call.out.raised => ~path_call.listed

\* the target_path arguments "" and "."
BaseItself == {Path(FALSE, <<>>), Path(FALSE, <<Dot>>)}

\* C16: validate_safe_path(base_dir, ".") and validate_safe_path(base_dir, "")
\* succeed and return the canonical absolute form of base_dir.
C16_DotAndEmptyResolveToBase ==
  (path_call.op = "validate" /\ path_call.target \in BaseItself)
    => /\ ~path_call.out.raised
       /\ path_call.out.path = CanonicalBase

\* "" was resolved against a relative base_dir below a working directory
\* that is not the root
C16_Witness ==
  /\ path_call.op = "validate"
  /\ path_call.target = Path(FALSE, <<>>)
  /\ ~path_call.base_dir.abs
  /\ path_call.base_dir.comps # <<Dot>>
  /\ cwd # <<>>
  /\ path_call.out.path = cwd \o path_call.base_dir.comps


\* C4: run(query) never raises: whatever the transport, the tools, the
\* tracer, the loop detector and the cost tracker do, every call of run
\* ends by returning a result record.
C4_RunNeverRaises == \A r \in Runs : run[r].pc # "raised"

\* the error observations in the conversation of run r
ErrorObservations(r) ==
  {i \in DOMAIN run[r].messages : run[r].messages[i] = "tool error"}

\* C5: a tool call whose arguments do not parse, or whose tool raises, adds
\* an error observation to the conversation and does not end the run: the
\* failure never becomes the run's final answer.
C5_ToolFailureIsObservation ==
  \A r \in Runs :
    /\ Cardinality(ErrorObservations(r)) = run[r].tool_failures
    /\ run[r].final_answer # ToolError

\* the tokens taken from the calculator's limiter since it was registered
\* (the clock stands still while the agent runs, so nothing is refilled)
TokensConsumed ==
  LET lim == reg_limiters["execute_calculation"]
  IN  lim.calls_per_minute * Token - lim.allowance

\* C6: every tool invocation of the agent loop goes through the registry's
\* execute: each invocation of the run in progress has taken one token from
\* the tool's limiter, so no tool runs once the limiter has none left.
C6_ToolCallsAreGoverned ==
  /\ tool_runs * Token <= TokensConsumed
  /\ tool_runs <= reg_limiters["execute_calculation"].calls_per_minute

\* the step is run r's return from the end of the try block (lines 180-191)
ReturnsNormally(r) == run[r].pc = "after_loop" /\ run'[r].pc = "returned"

\* the responses of run r so far that carried tool calls: each appended one
\* assistant message
AssistantMessages(r) ==
  Cardinality({i \in DOMAIN run[r].messages : run[r].messages[i] = "assistant"})

\* every response of run r carried tool calls and nothing set a final answer
ToolCallsEveryStep(r) ==
  /\ AssistantMessages(r) = run[r].completions
  /\ ~Truthy(run[r].final_answer)

\* C17: when every response carries tool calls and nothing sets a final
\* answer, run makes exactly max_steps completion calls, logs exactly
\* max_steps steps and returns "Max steps reached without final answer.".
C17_MaxStepsThenFallback ==
  [][\A r \in Runs :
       (ReturnsNormally(r) /\ ToolCallsEveryStep(r))
       => /\ run[r].completions = max_steps
          /\ Len(traces[run[r].trace].steps) = max_steps
          /\ traces[run[r].trace].steps = [i \in 1..max_steps |-> i]
          /\ run'[r].answer = MaxStepsMessage]_vars

\* a run of the largest step budget is about to return after tool calls at
\* every step
C17_Witness ==
  /\ max_steps = MaxSteps
  /\ run[1].pc = "after_loop"
  /\ run[1].completions = MaxSteps
  /\ ToolCallsEveryStep(1)
  /\ tool_runs >= MaxSteps

\* the first response of run r carried no tool calls, but a text
FirstResponseIsText(r) ==
  /\ run[r].completions >= 1
  /\ AssistantMessages(r) = 0
  /\ run[r].content # "<None>"

\* C18: when the first response carries no tool calls, the run ends after
\* exactly one completion call and returns that response's text, or the
\* detector's message when the stagnation check trips; the trace ends
\* completed.
C18_TextResponseIsTheAnswer ==
  [][\A r \in Runs :
       (ReturnsNormally(r) /\ FirstResponseIsText(r))
       => /\ run[r].completions = 1
          /\ run'[r].answer \in {run[r].content, LoopMessage}
          /\ traces'[run[r].trace].status = "completed"]_vars

\* C19: when the completion transport raises at some step, the run makes no
\* further completion call, ends its trace with status "error" and the error
\* text, and returns a result record; it does not raise.
C19_TransportFaultEndsInError ==
  [][\A r \in Runs :
       /\ (run[r].pc = "await" /\ run'[r].pc \notin {"await", "answer", "tool_loop"})
            => /\ run'[r].pc = "handler"
               /\ run'[r].error = "transport error"
       /\ (run[r].pc = "handler" /\ run[r].error = "transport error"
             /\ run'[r] # run[r])
            => /\ run'[r].pc = "returned"
               /\ run'[r].answer = AgentFailed
               /\ traces'[run[r].trace] =
                    [traces[run[r].trace] EXCEPT !.status = "error", !.ends = 1,
                                                 !.error = "transport error"]
               /\ ~cost_current'.open]_vars

\* the transport raised at step 2 and the run has returned
C19_Witness ==
  /\ run[1].pc = "returned"
  /\ run[1].answer = AgentFailed
  /\ traces[1].status = "error"
  /\ traces[1].error = "transport error"
  /\ traces[1].steps = <<1>>
  /\ step_number = 2

\* check_tool_call has reported a loop for a tool call of run r's step
LoopTripped(r) ==
  /\ run[r].pc \in {"tool_loop", "dispatch", "log_step", "after_loop"}
  /\ run[r].final_answer = LoopMessage
  /\ run[r].pending > 0

\* C20: once check_tool_call reports a loop, neither that call nor a later
\* call of the step is executed, the step is recorded, no further completion
\* call is made and the run returns the detector's message.
C20_LoopTripEndsRun ==
  [][\A r \in Runs :
       /\ (run[r].pc = "tool_loop" /\ run'[r].final_answer = LoopMessage)
            => run'[r].pc = "log_step" /\ run'[r].pending = run[r].pending
       /\ (LoopTripped(r) /\ run'[r] # run[r])
            => /\ tool_runs' = tool_runs
               /\ run[r].pc = "log_step"
                    => /\ run'[r].pc = "after_loop"
                       /\ traces'[run[r].trace].steps =
                            Append(traces[run[r].trace].steps, step_number)
               /\ run[r].pc = "after_loop"
                    => /\ run'[r].pc = "returned"
                       /\ run'[r].answer = LoopMessage
               /\ run[r].pc \in {"log_step", "after_loop"}]_vars

\* the second call of a step tripped the detector after the first had run,
\* and the step has been recorded
C20_Witness ==
  /\ run[1].pc = "after_loop"
  /\ run[1].final_answer = LoopMessage
  /\ run[1].pending = 1
  /\ tool_runs = 1
  /\ traces[1].steps = <<1>>

\* ------------------------------------------- claims on the cost tracker
RECURSIVE SumSeq(_)
SumSeq(numbers) ==
  IF numbers = <<>> THEN 0 ELSE Head(numbers) + SumSeq(Tail(numbers))

\* the totals of a QueryCost are the sums over its steps
TotalsAreSums(q) ==
  /\ q.total_cost_usd = SumSeq([i \in DOMAIN q.steps |-> q.steps[i].cost_usd])
  /\ q.total_input_tokens = SumSeq([i \in DOMAIN q.steps |-> q.steps[i].input_tokens])
  /\ q.total_output_tokens = SumSeq([i \in DOMAIN q.steps |-> q.steps[i].output_tokens])

\* C21: after any sequence of log_completion calls the totals of the open
\* query, and of every closed one, equal the sums over its steps list.
C21_TotalsEqualSums ==
  /\ cost_current.open => TotalsAreSums(cost_current)
  /\ \A i \in DOMAIN cost_queries : TotalsAreSums(cost_queries[i])

\* an open query with MaxLogged steps, the first without usage data
C21_Witness ==
  /\ cost_current.open
  /\ Len(cost_current.steps) = MaxLogged
  /\ cost_current.steps[1].cost_usd = 0
  /\ cost_current.total_cost_usd > 0

\* the steps logged to q are the first steps of q2
KeepsSteps(q, q2) ==
  /\ Len(q.steps) <= Len(q2.steps)
  /\ SubSeq(q2.steps, 1, Len(q.steps)) = q.steps

\* C22: start_query while a query is open closes the prior query or is
\* rejected; no call of the tracker loses the steps logged to a started
\* query: they stay in the open query or are in the queries list.
C22_NoLoggedStepsLost ==
  [][cost_current.open
       => \/ cost_current'.open /\ KeepsSteps(cost_current, cost_current')
          \/ /\ Len(cost_queries') = Len(cost_queries) + 1
             /\ cost_queries'[Len(cost_queries')] = cost_current]_vars

\* ------------------------------------- claims on a run's cost and trace
\* run r is between its start and its end
InProgress(r) == run[r].pc \notin {"idle", "returned", "raised"}

\* the step is run r's return, from the try block or from the handler
Returns(r) == InProgress(r) /\ run'[r].pc = "returned"

\* C23: on every path on which run returns, the cost query it opened has
\* been closed: no query is open, and the queries list has grown, since the
\* run started, by exactly one QueryCost, which holds one StepCost per
\* completed completion call of the run.
C23_ReturnClosesCostQuery ==
  [][\A r \in Runs :
       /\ (InProgress(r) /\ ~Returns(r)) => cost_queries' = cost_queries
       /\ Returns(r)
            => /\ ~cost_current'.open
               /\ Len(cost_queries') = Len(cost_queries) + 1
               /\ LET q == cost_queries'[Len(cost_queries')]
                  IN  /\ Len(q.steps) = run[r].completions
                      /\ \A i \in DOMAIN q.steps : q.steps[i].step_number = i]_vars

\* the second run on the agent returned from the handler after one
\* completed completion call, and both runs' queries are closed
C23_Witness ==
  /\ run[2].pc = "returned"
  /\ run[2].answer = AgentFailed
  /\ ~cost_current.open
  /\ Len(cost_queries) = 2
  /\ Len(cost_queries[2].steps) = 1

\* the runs that have started a trace
Started == {r \in Runs : run[r].trace # 0}

\* C24: every run starts one trace and ends that trace exactly once, with
\* status completed or error, and nothing is logged to a trace after its
\* end_trace.
C24_TraceBracketsRun ==
  /\ [](/\ Len(traces) = Cardinality(Started)
        /\ \A r, q \in Started : r # q => run[r].trace # run[q].trace
        /\ \A r \in Started :
              IF run[r].pc = "returned"
                THEN /\ traces[run[r].trace].ends = 1
                     /\ traces[run[r].trace].status \in {"completed", "error"}
                ELSE /\ traces[run[r].trace].ends = 0
                     /\ traces[run[r].trace].status = "open")
  /\ [][\A t \in DOMAIN traces :
          traces[t].ends > 0 => traces'[t] = traces[t]]_vars

\* two runs have returned, one trace completed with both steps logged, the
\* other ended in error
C24_Witness ==
  /\ run[1].pc = "returned"
  /\ run[2].pc = "returned"
  /\ traces[1].status = "completed"
  /\ Len(traces[1].steps) = MaxSteps
  /\ traces[2].status = "error"
  /\ traces[2].ends = 1

\* ------------------------------------------------ claims on the HTTP client
\* the step sends a request that times out
IsTimeoutStep ==
  /\ client.pc = "request"
  /\ Len(client'.sent) = Len(client.sent) + 1
  /\ client'.sent[Len(client'.sent)] = TimedOutRequest

\* C25: a request that times out while attempts remain is retried after a
\* sleep of retry_delay and does not end query(); only a timeout of the last
\* of the max_retries attempts ends query(), with the timeout re-raised.
C25_TimeoutIsRetried ==
  [][IsTimeoutStep =>
       IF client.attempt < client.max_retries - 1
         THEN /\ client'.pc = "request"
              /\ client'.sleeps = Append(client.sleeps, client.retry_delay)
         ELSE /\ client'.pc = "raised"
              /\ client'.result = "Timeout"]_vars

IsStatus(i, S) ==
  /\ client.sent[i].kind = "response"
  /\ client.sent[i].status \in S

OnlyBusyAnswers == \A i \in 1..Len(client.sent) : IsStatus(i, {503, 429})

\* C29: query() sends at most max_retries requests; a 200 response is the
\* last request sent and its body is returned; when every request is answered
\* 503 or 429 each is followed by its sleep (retry_delay for 503,
\* retry_delay * 2^attempt for 429) and the call ends with RuntimeError after
\* exactly max_retries requests; a response with any other status is the last
\* request sent and ends the call with that error.
C29_RequestsAndStatuses ==
  client.pc \in {"request", "returned", "raised"} =>
    /\ Len(client.sent) <= client.max_retries
    /\ \A i \in 1..Len(client.sent) :
         /\ IsStatus(i, {200}) =>
              /\ i = Len(client.sent)
              /\ client.pc = "returned"
              /\ client.result = "body"
         /\ IsStatus(i, Statuses \ {200, 503, 429}) =>
              /\ i = Len(client.sent)
              /\ client.pc = "raised"
              /\ client.result = "HTTPError"
    /\ OnlyBusyAnswers =>
         /\ Len(client.sleeps) = Len(client.sent)
         /\ \A i \in 1..Len(client.sent) :
              client.sleeps[i] = IF IsStatus(i, {429})
                                   THEN client.retry_delay * (2 ^ (i - 1))
                                   ELSE client.retry_delay
         /\ client.pc = "raised" <=> Len(client.sent) = client.max_retries
         /\ client.pc = "raised" => client.result = "RuntimeError"

\* ------------------------------------------------- claims on a run's steps
\* a run whose completion request is outstanding
Awaiting(r) == run[r].pc = "await"

\* C26: whenever a run makes a completion call, the step counter is the
\* number of that call (1 for the first, 2 for the second, ...) and is at
\* most max_steps; with every completion and tool call returning or raising,
\* a run that was started does not stay in progress forever, and it never
\* ends by raising: it eventually returns.
C26_BoundedStepsAndReturn ==
  /\ [](\A r \in Runs : Awaiting(r) =>
           /\ step_number = run[r].completions + 1
           /\ step_number <= max_steps)
  /\ [](\A r \in Runs : run[r].pc # "raised")
  /\ []<>(\A r \in Runs : ~InProgress(r))

C26_Witness ==
  \E r \in Runs : Awaiting(r) /\ run[r].completions = 1 /\ step_number = 2

\* the step numbers logged so far to the trace run r started
Logged(r) == traces[run[r].trace].steps

\* run r is inside a step whose completion has returned and which is not
\* logged yet: at the stagnation check, at a tool call, or about to log
InsideStep(r) ==
  run[r].pc \in {"answer", "log_answer", "tool_loop", "dispatch", "log_step"}

\* C27: the steps logged to a run's trace are 1, 2, ..., n without gap or
\* duplicate; while a step's tool calls are checked and dispatched it is not
\* logged yet, and otherwise every step whose completion returned has been
\* logged once, so that the run returns with exactly one logged step per
\* returned completion; a step whose completion raised is not logged.
C27_OneLogPerCompletedStep ==
  /\ [](\A r \in Runs : InProgress(r) /\ run[r].trace # 0 =>
           /\ Logged(r) = [i \in 1..Len(Logged(r)) |-> i]
           /\ Len(Logged(r)) = run[r].completions - (IF InsideStep(r) THEN 1 ELSE 0))
  /\ [][\A r \in Runs : Returns(r) =>
           traces'[run[r].trace].steps = [i \in 1..run[r].completions |-> i]]_vars

C27_Witness ==
  \E r \in Runs :
    /\ run[r].pc = "handler"
    /\ run[r].error = "transport error"
    /\ run[r].completions = 1
    /\ step_number = 2
    /\ Logged(r) = <<1>>

\* ------------------------------------------- claims on the loop detector
\* run r is at a check of the loop detector (check_output_stagnation or
\* check_tool_call)
AtCheck(r) == run[r].pc \in {"answer", "tool_loop"}

\* C28: a run has called loop_detector.reset exactly once when it makes a
\* check and when it returns, and at each of its checks the detector holds
\* no history of any other run.
C28_ChecksSeeOwnRunOnly ==
  /\ [](\A r \in Runs : AtCheck(r) => run[r].resets = 1 /\ detector \subseteq {r})
  /\ [][\A r \in Runs : Returns(r) => run[r].resets = 1]_vars

C28_Witness ==
  /\ run[1].pc = "returned"
  /\ run[1].answer = "answer"
  /\ AtCheck(2)
  /\ detector = {2}

\* ------------------------------------------- claims on interleaved runs
\* the step is taken by run r
Acts(r) == run'[r] # run[r]

\* C30: when two run() calls on one agent interleave at the completion
\* await, a step of a run changes no trace but the one that run started
\* (it logs steps to and ends only its own trace), a run makes its k-th
\* completion call with the step counter at k <= max_steps, and a run that
\* returns has closed a cost query that holds one step per completion call
\* of that run that returned.
C30_InterleavedRunsKeepTheirOwn ==
  [][\A r \in Runs : Acts(r) =>
       /\ \A t \in DOMAIN traces : t # run'[r].trace => traces'[t] = traces[t]
       /\ run'[r].pc = "await" =>
            /\ step_number' = run[r].completions + 1
            /\ step_number' <= max_steps
       /\ Returns(r) =>
            /\ Len(cost_queries') = Len(cost_queries) + 1
            /\ Len(cost_queries'[Len(cost_queries')].steps) = run[r].completions]_vars

\* ------------------------------------------- claims on the returned answer
\* C31: the answer run returns from the end of the try block is never None
\* nor the empty text: a final answer that is None or empty when the loop
\* ends (a response without tool calls and without text included, at any
\* step) is replaced by "Max steps reached without final answer.", any other
\* final answer is returned as it is, and the trace ends with status
\* completed.
C31_NormalAnswerNeverEmpty ==
  [][\A r \in Runs : ReturnsNormally(r) =>
       /\ Truthy(run'[r].answer)
       /\ run'[r].answer = IF Truthy(run[r].final_answer)
                             THEN run[r].final_answer
                             ELSE MaxStepsMessage
       /\ traces'[run[r].trace].status = "completed"]_vars

\* a run with a budget of two steps has returned the fixed message after a
\* single step: its first response carried neither tool calls nor text
C31_Witness ==
  /\ max_steps = 2
  /\ step_number = 1
  /\ run[1].pc = "returned"
  /\ run[1].answer = MaxStepsMessage
  /\ run[2].pc = "idle"
  /\ traces[run[1].trace].steps = <<1>>
  /\ traces[run[1].trace].status = "completed"

\* ------------------------------------------- claims on the registry's quota
\* the allowance the limiter of a registered name holds at the present clock
\* reading, its refill since the last check counted in
Available(name) == Cap(Refill(reg_limiters[name], now)).allowance

\* every limiter but the one of this name is as it was
OthersUntouched(name) ==
  \A x \in RegisteredNames \ {name} : reg_limiters'[x] = reg_limiters[x]

\* C32: a call of execute that finds the tool and whose limiter holds a token
\* takes exactly one token from that tool's limiter and invokes the tool,
\* whether the tool returns or raises; a call refused as rate limited takes
\* none and does not invoke the tool; a call for an unknown name changes no
\* limiter; no call touches the limiter of another tool.
C32_OneTokenPerAdmittedCall ==
  [][IsCall("execute") =>
       LET name == last_call'.name
       IN  IF name \notin RegisteredNames
             THEN reg_limiters' = reg_limiters
             ELSE /\ OthersUntouched(name)
                  /\ IF Available(name) >= Token
                       THEN /\ reg_limiters'[name].allowance = Available(name) - Token
                            /\ last_call'.ran
                            /\ last_call'.res.error # RateLimited
                       ELSE /\ reg_limiters'[name].allowance = Available(name)
                            /\ ~last_call'.ran
                            /\ last_call'.res.error = RateLimited]_vars

\* the first call of a tool, right after its registration, failed inside the
\* tool and left the bucket one token short
C32_Witness ==
  /\ last_call.op = "execute"
  /\ last_call.name \in RegisteredNames
  /\ last_call.ran
  /\ ~last_call.res.success
  /\ last_call.nth = 1
  /\ now = reg_at[last_call.name]
  /\ LET lim == reg_limiters[last_call.name]
     IN  lim.allowance = lim.calls_per_minute * Token - Token


====
